---- MODULE Spec2Model ----
(***************************************************************************)
(* Model of fitts.py: a 1D Fitts' law experiment.  The module models the   *)
(* raw-pointer accumulator fed by the libpointing callback, the target     *)
(* sequencer (pickNewTarget), the per-frame logger (logMouseData), the     *)
(* log save and the main loop's session state machine.                     *)
(*                                                                         *)
(* Two specifications are given.  Spec runs the session state machine with *)
(* the device callback as one step.  SpecPtr runs the device callback      *)
(* statement by statement against the frame loop's logMouseData, which is  *)
(* where the two threads share pointer and frame accumulator.              *)
(***************************************************************************)
EXTENDS Integers, Sequences, FiniteSets, TLC

(* ---------------- experiment states (fitts.py 27-33) ------------------- *)
START_SCREEN == 0
TRIAL == 1
TRANSITION == 2
EXPERIMENT == 3
BREAK_SCREEN == 4
END == 5
COUNTDOWN == 6

EXPERIMENT_SEED == 42

(* ---------------- bounds of the model ---------------------------------- *)
\* number of entries of the source's distance list [200,400,600,800] used
NumDistances == 1
\* the source repeats every condition 10 times
repetitions == 2
\* the source takes a break every 20 experiment targets
breakInterval == 2
\* number of explicit 's' key presses considered in one session
MaxSaveKeys == 1
\* largest |frame_dx|, |frame_dy| accumulated between two logged frames
MaxFrameSum == 100
\* largest overshootCount followed for one target
MaxOvershoot == 1
\* number of device reports delivered in SpecPtr
MaxDeltas == 2
\* milliseconds of pygame.time.get_ticks() followed after an edge entry
MaxTicks == 2

(* ---------------- program constants ------------------------------------ *)
AllDistances == <<200, 400, 600, 800>>
distances == SubSeq(AllDistances, 1, NumDistances)
widths == <<30, 50, 70>>
totalTrialTargets == 3
countdownDuration == 3
\* screen size; line 236 replaces it by the display's size, taken here to
\* be the default window size of line 101
WIDTH == 800
HEIGHT == 400

Max(a, b) == IF a >= b THEN a ELSE b
Min(a, b) == IF a <= b THEN a ELSE b
Abs(a) == IF a < 0 THEN 0 - a ELSE a

\* conditions = [(A, W) for A in distances for W in widths]
conditions ==
  [k \in 1..(Len(distances) * Len(widths)) |->
     [A |-> distances[((k - 1) \div Len(widths)) + 1],
      W |-> widths[((k - 1) % Len(widths)) + 1]]]

\* conditions * repetitions
RECURSIVE Repeat(_, _)
Repeat(seq, n) == IF n = 0 THEN <<>> ELSE seq \o Repeat(seq, n - 1)

totalExperimentTargets == Len(conditions) * repetitions

\* random.shuffle is a Fisher-Yates pass from the last index down, drawing
\* j = randbelow(i + 1).  The generator seeded with EXPERIMENT_SEED is
\* represented by a linear congruential stream.
NextRand(r) == (r * 75 + 74) % 257

Swap(seq, i, j) ==
  [k \in 1..Len(seq) |-> IF k = i THEN seq[j] ELSE IF k = j THEN seq[i] ELSE seq[k]]

RECURSIVE FisherYates(_, _, _)
FisherYates(seq, p, r) ==
  IF p < 2 THEN seq
  ELSE LET r2 == NextRand(r)
           j == (r2 % p) + 1
       IN FisherYates(Swap(seq, p, j), p - 1, r2)

shuffle(seq) == FisherYates(seq, Len(seq), EXPERIMENT_SEED)

\* The shuffled list.  Every entry carries its position in the list (pos,
\* counted from 1, so trial_sequence[0] of the source has pos = 1) so that a
\* placement can be traced to the entry it used; pos = 0 marks an entry that
\* comes from random.sample.
trial_sequence ==
  LET s == shuffle(Repeat(conditions, repetitions))
  IN [k \in 1..Len(s) |-> [A |-> s[k].A, W |-> s[k].W, pos |-> k]]

\* random.sample(conditions, totalTrialTargets): the ordered selections of
\* totalTrialTargets distinct entries of conditions
Samples ==
  {[k \in 1..totalTrialTargets |->
      [A |-> conditions[f[k]].A, W |-> conditions[f[k]].W, pos |-> 0]] :
     f \in {g \in [1..totalTrialTargets -> 1..Len(conditions)] :
              \A a, b \in 1..totalTrialTargets : a # b => g[a] # g[b]}}

VARIABLES
  \* main loop
  state, running, pc, crashed,
  trialCount, experimentCount, reactionTimes,
  clicked, hit, logSaved, fileWrites, saveKeys, countdownElapsed,
  x, y,
  \* target sequencer and per-target tracking
  currentTrialSequence, currentTrialIndex,
  targetX, targetY, targetSize, targetOnLeft,
  formerTargetX, formerTargetY, formerTargetSize,
  hasEnteredEdge, insideEdgeLastFrame, overshootCount, timeSinceEdge,
  placements,
  \* raw pointer and frame accumulator
  pointer_x, pointer_y, frame_dx, frame_dy, frame_buttons,
  \* device callback and logger, statement by statement (SpecPtr)
  cb_pc, cb_dx, cb_dy, cb_buttons, cb_tmp, log_pc, log_x, log_y,
  delivered, sent_dx, sent_dy, logged_dx, logged_dy, pos_applied, acc_applied,
  \* what the log and the file hold and what the current iteration has seen
  logDirty, eventClicked, eventHit

loopvars == <<state, running, pc, trialCount, experimentCount, reactionTimes,
              clicked, hit, logSaved, fileWrites, saveKeys, countdownElapsed, x, y>>
targetvars == <<currentTrialSequence, currentTrialIndex,
                targetX, targetY, targetSize, targetOnLeft,
                formerTargetX, formerTargetY, formerTargetSize,
                hasEnteredEdge, insideEdgeLastFrame, overshootCount, timeSinceEdge,
                placements, crashed>>
ptrvars == <<pointer_x, pointer_y, frame_dx, frame_dy, frame_buttons>>
racevars == <<cb_pc, cb_dx, cb_dy, cb_buttons, cb_tmp, log_pc, log_x, log_y,
              delivered, sent_dx, sent_dy, logged_dx, logged_dy,
              pos_applied, acc_applied>>
\* logDirty: logData holds rows that the file on disk does not hold (the
\* file always is a prefix of logData, so this is all that is needed to
\* compare the two).  eventClicked, eventHit: a MOUSEBUTTONDOWN has been
\* handled in the current iteration of the main loop, and one of them lay
\* inside the displayed target.
obsvars == <<logDirty, eventClicked, eventHit>>
vars == <<loopvars, targetvars, ptrvars, racevars, obsvars>>

(* ---------------- RawPointer (fitts.py 105-118) ------------------------ *)
\* a pointer that wraps around the screen instead of stopping at the edge
ClampX_wrap(v) == v % (WIDTH + 1)

\* max(0, min(WIDTH, self.x + dx))
ClampX(v) == Max(0, Min(WIDTH, v))
ClampY(v) == Max(0, Min(HEIGHT, v))

\* RawPointer.update, the body of its `with self.lock` block
RawPointer_update(dx, dy) ==
  /\ pointer_x' = ClampX(pointer_x + dx)
  /\ pointer_y' = ClampY(pointer_y + dy)

(* ---------------- pickNewTarget (fitts.py 136-168) --------------------- *)
\* The variables pickNewTarget and logMouseData work on, as one record, so
\* that a handler can run one after the other inside a single step.
Cur ==
  [seq |-> currentTrialSequence, idx |-> currentTrialIndex,
   tX |-> targetX, tY |-> targetY, tSize |-> targetSize, onLeft |-> targetOnLeft,
   fX |-> formerTargetX, fY |-> formerTargetY, fSize |-> formerTargetSize,
   entered |-> hasEnteredEdge, insideLast |-> insideEdgeLastFrame,
   over |-> overshootCount, since |-> timeSinceEdge,
   placed |-> placements, crashed |-> crashed]

SetCur(r) ==
  /\ currentTrialSequence' = r.seq
  /\ currentTrialIndex' = r.idx
  /\ targetX' = r.tX
  /\ targetY' = r.tY
  /\ targetSize' = r.tSize
  /\ targetOnLeft' = r.onLeft
  /\ formerTargetX' = r.fX
  /\ formerTargetY' = r.fY
  /\ formerTargetSize' = r.fSize
  /\ hasEnteredEdge' = r.entered
  /\ insideEdgeLastFrame' = r.insideLast
  /\ overshootCount' = r.over
  /\ timeSinceEdge' = r.since
  /\ placements' = r.placed
  /\ crashed' = r.crashed

\* a placement that leaves the side as it is
PlaceTarget_sameSide(t, st, e) ==
  [t EXCEPT
     !.tSize = e.W,
     !.fX = t.tX, !.fY = t.tY, !.fSize = e.W,
     !.tY = HEIGHT \div 2,
     !.tX = IF t.onLeft THEN (WIDTH \div 2) - (e.A \div 2)
                        ELSE (WIDTH \div 2) + (e.A \div 2),
     !.entered = FALSE, !.insideLast = FALSE, !.over = 0, !.since = -1,
     !.placed = Append(t.placed, [st |-> st, pos |-> e.pos, A |-> e.A, W |-> e.W])]

\* lines 153-168: place the target for condition e
PlaceTarget(t, st, e) ==
  [t EXCEPT
     !.tSize = e.W,
     \* line 154 runs after line 153, so formerTargetSize receives W
     !.fX = t.tX, !.fY = t.tY, !.fSize = e.W,
     !.tY = HEIGHT \div 2,
     !.tX = IF t.onLeft THEN (WIDTH \div 2) - (e.A \div 2)
                        ELSE (WIDTH \div 2) + (e.A \div 2),
     !.onLeft = ~t.onLeft,
     !.entered = FALSE, !.insideLast = FALSE, !.over = 0, !.since = -1,
     !.placed = Append(t.placed, [st |-> st, pos |-> e.pos, A |-> e.A, W |-> e.W])]

\* the draws random.sample can return when pickNewTarget reaches line 144
SampleChoices(t, st) ==
  IF st = TRIAL /\ t.seq = <<>> THEN Samples ELSE {<<>>}

\* a sequencer that reads the head of the experiment list without removing it
pickNewTarget_nopop(t, st, smp) ==
  IF st = TRIAL
  THEN LET seq == IF t.seq = <<>> THEN smp ELSE t.seq
           idx == IF t.seq = <<>> THEN 0 ELSE t.idx
       IN IF idx >= Len(seq)
          THEN [t EXCEPT !.seq = seq, !.idx = idx, !.crashed = TRUE]
          ELSE PlaceTarget([t EXCEPT !.seq = seq, !.idx = idx + 1], st, seq[idx + 1])
  ELSE LET seq == IF t.seq = <<>> THEN trial_sequence ELSE t.seq
       IN PlaceTarget([t EXCEPT !.seq = seq], st, Head(seq))

\* pickNewTarget called while `state` is st; smp is the result of
\* random.sample if line 144 is reached.  An IndexError at line 146 ends the
\* program: the record is left as it is and crashed is set.
pickNewTarget(t, st, smp) ==
  IF st = TRIAL
  THEN LET seq == IF t.seq = <<>> THEN smp ELSE t.seq
           idx == IF t.seq = <<>> THEN 0 ELSE t.idx
       IN IF idx >= Len(seq)
          THEN [t EXCEPT !.seq = seq, !.idx = idx, !.crashed = TRUE]
          ELSE PlaceTarget([t EXCEPT !.seq = seq, !.idx = idx + 1], st, seq[idx + 1])
  ELSE LET seq == IF t.seq = <<>> THEN trial_sequence ELSE t.seq
       IN PlaceTarget([t EXCEPT !.seq = Tail(seq)], st, Head(seq))

(* ---------------- logMouseData (fitts.py 173-212) ---------------------- *)
\* a hit test with the comparison turned around
Inside_flipped(px, py, tX, tY, tSize) ==
  4 * ((px - tX) * (px - tX) + (py - tY) * (py - tY)) >= tSize * tSize

\* distance <= targetSize / 2 (lines 281, 287, 297) and distanceEdge == 0
\* (lines 178-179, 186) are the same test, here without the square root
Inside(px, py, tX, tY, tSize) ==
  4 * ((px - tX) * (px - tX) + (py - tY) * (py - tY)) <= tSize * tSize

\* a tracking that counts every logged frame outside the target
logMouseData_track_anyOutside(t, px, py) ==
  LET insideEdge == Inside(px, py, t.tX, t.tY, t.tSize)
  IN [t EXCEPT
        !.entered = t.entered \/ insideEdge,
        !.since = IF ~t.entered /\ insideEdge THEN 0 ELSE t.since,
        !.over = IF ~insideEdge THEN t.over + 1 ELSE t.over,
        !.insideLast = insideEdge]

\* a tracking that stores the entry time at every entry into the target
logMouseData_track_relatch(t, px, py) ==
  LET insideEdge == Inside(px, py, t.tX, t.tY, t.tSize)
  IN [t EXCEPT
        !.entered = t.entered \/ insideEdge,
        !.since = IF ~t.insideLast /\ insideEdge THEN 0 ELSE t.since,
        !.over = IF t.insideLast /\ ~insideEdge THEN t.over + 1 ELSE t.over,
        !.insideLast = insideEdge]

\* lines 177-192: the per-target tracking after one logged frame.
\* timeSinceEdge is the value line 192 computes at the current time,
\* get_ticks() - enteredEdgeTime once the edge has been entered and -1
\* before; storing the entry time (line 183) makes it 0.
logMouseData_track(t, px, py) ==
  LET insideEdge == Inside(px, py, t.tX, t.tY, t.tSize)
  IN [t EXCEPT
        !.entered = t.entered \/ insideEdge,
        !.since = IF ~t.entered /\ insideEdge THEN 0 ELSE t.since,
        !.over = IF t.insideLast /\ ~insideEdge THEN t.over + 1 ELSE t.over,
        !.insideLast = insideEdge]

(* ---------------- saveLog (fitts.py 223-229) --------------------------- *)
saveLog ==
  /\ fileWrites' = fileWrites + 1
  /\ logDirty' = FALSE
  /\ logSaved' = TRUE

(* ---------------- initial state ---------------------------------------- *)
\* the module-level values of lines 49-89, before the startup call of line 247
Startup ==
  [seq |-> <<>>, idx |-> 0,
   tX |-> 0, tY |-> 0, tSize |-> 50, onLeft |-> TRUE,
   fX |-> 0, fY |-> 0, fSize |-> 0,
   entered |-> FALSE, insideLast |-> FALSE, over |-> 0, since |-> -1,
   placed |-> <<>>, crashed |-> FALSE]

InitRace ==
  /\ cb_pc = "idle" /\ cb_dx = 0 /\ cb_dy = 0 /\ cb_buttons = 0 /\ cb_tmp = 0
  /\ log_pc = "idle" /\ log_x = 0 /\ log_y = 0
  /\ delivered = 0 /\ sent_dx = 0 /\ sent_dy = 0
  /\ logged_dx = 0 /\ logged_dy = 0
  /\ pos_applied = 0 /\ acc_applied = 0

\* the module-level values of lines 49-101 and the pointer of line 121,
\* with the session in state st and the sequencer and target as in t
InitWith(st, t) ==
  /\ state = st /\ running = TRUE /\ pc = "top"
  /\ trialCount = 0 /\ experimentCount = 0 /\ reactionTimes = 0
  /\ clicked = FALSE /\ hit = FALSE
  /\ logSaved = FALSE /\ fileWrites = 0 /\ saveKeys = 0
  /\ countdownElapsed = 0
  /\ pointer_x = WIDTH \div 2 /\ pointer_y = HEIGHT \div 2
  /\ x = WIDTH \div 2 /\ y = HEIGHT \div 2
  /\ frame_dx = 0 /\ frame_dy = 0 /\ frame_buttons = 0
  /\ currentTrialSequence = t.seq /\ currentTrialIndex = t.idx
  /\ targetX = t.tX /\ targetY = t.tY /\ targetSize = t.tSize
  /\ targetOnLeft = t.onLeft
  /\ formerTargetX = t.fX /\ formerTargetY = t.fY /\ formerTargetSize = t.fSize
  /\ hasEnteredEdge = t.entered /\ insideEdgeLastFrame = t.insideLast
  /\ overshootCount = t.over /\ timeSinceEdge = t.since
  /\ placements = t.placed /\ crashed = t.crashed
  /\ logDirty = FALSE /\ eventClicked = FALSE /\ eventHit = FALSE
  /\ InitRace

\* the state when the main loop is entered: line 247 has called
\* pickNewTarget() while state is still START_SCREEN
AfterStartup == pickNewTarget(Startup, START_SCREEN, <<>>)

Init == InitWith(START_SCREEN, AfterStartup)

(* ---------------- device callback as one step (fitts.py 126-131) ------- *)
pointing_callback(dx, dy, buttons) ==
  /\ pc # "done" /\ ~crashed
  /\ Abs(frame_dx + dx) <= MaxFrameSum
  /\ Abs(frame_dy + dy) <= MaxFrameSum
  /\ RawPointer_update(dx, dy)
  /\ frame_dx' = frame_dx + dx
  /\ frame_dy' = frame_dy + dy
  /\ frame_buttons' = buttons
  /\ UNCHANGED <<loopvars, targetvars, racevars, obsvars>>

(* ---------------- main loop (fitts.py 253-358) ------------------------- *)
\* lines 253-256: a new iteration reads the pointer into x, y
FrameTop ==
  /\ pc = "top" /\ running /\ ~crashed
  /\ x' = pointer_x /\ y' = pointer_y
  /\ pc' = "events"
  /\ eventClicked' = FALSE /\ eventHit' = FALSE
  /\ UNCHANGED <<state, running, trialCount, experimentCount, reactionTimes,
                 clicked, hit, logSaved, fileWrites, saveKeys, countdownElapsed>>
  /\ UNCHANGED <<targetvars, ptrvars, racevars, logDirty>>

\* lines 259-260: pygame.QUIT
QuitEvent ==
  /\ pc = "events" /\ ~crashed
  /\ running' = FALSE
  /\ UNCHANGED <<state, pc, trialCount, experimentCount, reactionTimes,
                 clicked, hit, logSaved, fileWrites, saveKeys, countdownElapsed, x, y>>
  /\ UNCHANGED <<targetvars, ptrvars, racevars, obsvars>>

\* a KEYDOWN handler whose 'c' restarts the experiment counter after a break
KeyDown_breakResets(key) ==
  /\ pc = "events" /\ ~crashed
  /\ running' = IF key = "q" THEN FALSE ELSE running
  /\ IF key = "s"
     THEN /\ saveKeys < MaxSaveKeys
          /\ saveKeys' = saveKeys + 1
          /\ saveLog
     ELSE UNCHANGED <<saveKeys, fileWrites, logSaved, logDirty>>
  /\ IF state = TRANSITION /\ key = "r"
     THEN /\ trialCount' = 0
          /\ state' = TRIAL
          /\ \E smp \in SampleChoices(Cur, TRIAL) : SetCur(pickNewTarget(Cur, TRIAL, smp))
          /\ UNCHANGED <<experimentCount, reactionTimes, countdownElapsed>>
     ELSE IF state \in {TRANSITION, BREAK_SCREEN} /\ key = "c"
     THEN /\ experimentCount' = 0
          /\ reactionTimes' = 0
          /\ state' = COUNTDOWN
          /\ countdownElapsed' = 0
          /\ UNCHANGED <<trialCount, targetvars>>
     ELSE UNCHANGED <<state, trialCount, experimentCount, reactionTimes,
                      countdownElapsed, targetvars>>
  /\ UNCHANGED <<pc, clicked, hit, x, y, ptrvars, racevars, eventClicked, eventHit>>

\* lines 261-278: pygame.KEYDOWN; key "q" stands for Esc and q
KeyDown(key) ==
  /\ pc = "events" /\ ~crashed
  /\ running' = IF key = "q" THEN FALSE ELSE running
  /\ IF key = "s"
     THEN /\ saveKeys < MaxSaveKeys
          /\ saveKeys' = saveKeys + 1
          /\ saveLog
     ELSE UNCHANGED <<saveKeys, fileWrites, logSaved, logDirty>>
  /\ IF state = TRANSITION /\ key = "r"
     THEN /\ trialCount' = 0
          /\ state' = TRIAL
          /\ \E smp \in SampleChoices(Cur, TRIAL) : SetCur(pickNewTarget(Cur, TRIAL, smp))
          /\ UNCHANGED <<experimentCount, reactionTimes, countdownElapsed>>
     ELSE IF state = TRANSITION /\ key = "c"
     THEN /\ experimentCount' = 0
          /\ reactionTimes' = 0
          /\ state' = COUNTDOWN
          /\ countdownElapsed' = 0
          /\ UNCHANGED <<trialCount, targetvars>>
     ELSE IF state = BREAK_SCREEN /\ key = "c"
     THEN /\ state' = COUNTDOWN
          /\ countdownElapsed' = 0
          /\ UNCHANGED <<trialCount, experimentCount, reactionTimes, targetvars>>
     ELSE UNCHANGED <<state, trialCount, experimentCount, reactionTimes,
                      countdownElapsed, targetvars>>
  /\ UNCHANGED <<pc, clicked, hit, x, y, ptrvars, racevars, eventClicked, eventHit>>

\* lines 290-293: the state after the hit that makes trialCount n
TrialHitState(n) == IF n >= totalTrialTargets THEN TRANSITION ELSE TRIAL

\* a break check that runs before the end check
ExperimentHitState_breakFirst(n) ==
  IF n % breakInterval = 0 THEN BREAK_SCREEN
  ELSE IF n >= totalExperimentTargets THEN END
  ELSE EXPERIMENT

\* lines 301-306: the state after the hit that makes experimentCount n
ExperimentHitState(n) ==
  IF n >= totalExperimentTargets THEN END
  ELSE IF n % breakInterval = 0 THEN BREAK_SCREEN
  ELSE EXPERIMENT

\* lines 279-308: pygame.MOUSEBUTTONDOWN
MouseButtonDown ==
  /\ pc = "events" /\ ~crashed
  /\ clicked' = TRUE
  /\ eventClicked' = TRUE
  /\ eventHit' = (eventHit \/ (state \in {TRIAL, EXPERIMENT}
                                /\ Inside(x, y, targetX, targetY, targetSize)))
  /\ LET inTarget == Inside(x, y, targetX, targetY, targetSize)
     IN IF state = START_SCREEN
        THEN /\ state' = TRIAL
             /\ trialCount' = 0
             /\ \E smp \in SampleChoices(Cur, TRIAL) :
                   SetCur(pickNewTarget(Cur, TRIAL, smp))
             /\ UNCHANGED <<hit, experimentCount, reactionTimes>>
        ELSE IF state = TRIAL /\ inTarget
        THEN /\ hit' = TRUE
             /\ trialCount' = trialCount + 1
             /\ IF TrialHitState(trialCount + 1) # TRIAL
                THEN state' = TrialHitState(trialCount + 1) /\ UNCHANGED targetvars
                ELSE /\ state' = state
                     /\ \E smp \in SampleChoices(Cur, TRIAL) :
                           SetCur(pickNewTarget(Cur, TRIAL, smp))
             /\ UNCHANGED <<experimentCount, reactionTimes>>
        ELSE IF state = EXPERIMENT /\ inTarget
        THEN /\ hit' = TRUE
             /\ reactionTimes' = reactionTimes + 1
             /\ experimentCount' = experimentCount + 1
             /\ IF ExperimentHitState(experimentCount + 1) # EXPERIMENT
                THEN /\ state' = ExperimentHitState(experimentCount + 1)
                     /\ UNCHANGED targetvars
                ELSE /\ state' = state
                     /\ SetCur(pickNewTarget(Cur, EXPERIMENT, <<>>))
             /\ UNCHANGED trialCount
        ELSE IF state \in {TRIAL, EXPERIMENT}
        THEN /\ hit' = FALSE
             /\ UNCHANGED <<state, trialCount, experimentCount, reactionTimes, targetvars>>
        ELSE UNCHANGED <<hit, state, trialCount, experimentCount, reactionTimes,
                         targetvars>>
  /\ UNCHANGED <<running, pc, logSaved, fileWrites, saveKeys, countdownElapsed, x, y>>
  /\ UNCHANGED <<ptrvars, racevars, logDirty>>

\* time.time() advances by one second while the countdown runs; elapsed of
\* line 334 is countdownElapsed, set to 0 where the source stores
\* countdownStartTime = time.time()
ClockAdvance ==
  /\ pc # "done" /\ ~crashed
  /\ state = COUNTDOWN
  /\ countdownElapsed < countdownDuration
  /\ countdownElapsed' = countdownElapsed + 1
  /\ UNCHANGED <<state, running, pc, trialCount, experimentCount, reactionTimes,
                 clicked, hit, logSaved, fileWrites, saveKeys, x, y>>
  /\ UNCHANGED <<targetvars, ptrvars, racevars, obsvars>>

\* pygame.time.get_ticks() advances by one millisecond.  The model keeps
\* the time relative to enteredEdgeTime, so the step is visible only once
\* the edge of the displayed target has been entered.
Tick ==
  /\ pc # "done" /\ ~crashed
  /\ hasEnteredEdge /\ timeSinceEdge < MaxTicks
  /\ timeSinceEdge' = timeSinceEdge + 1
  /\ UNCHANGED <<currentTrialSequence, currentTrialIndex,
                 targetX, targetY, targetSize, targetOnLeft,
                 formerTargetX, formerTargetY, formerTargetSize,
                 hasEnteredEdge, insideEdgeLastFrame, overshootCount,
                 placements, crashed>>
  /\ UNCHANGED <<loopvars, ptrvars, racevars, obsvars>>

\* a countdown that ends one second early
remaining_early == countdownDuration - countdownElapsed - 1

\* line 335: remaining = countdownDuration - int(elapsed)
remaining == countdownDuration - countdownElapsed

\* line 349: the states in which the iteration ends with logMouseData()
LoggedStates_withEnd == {TRIAL, EXPERIMENT, END}

LoggedStates == {TRIAL, EXPERIMENT}

\* lines 316-356: the rest of the iteration after the event loop: the
\* COUNTDOWN and END branches, then logMouseData in TRIAL and EXPERIMENT
FrameEnd ==
  /\ pc = "events" /\ ~crashed
  /\ LET leave == state = COUNTDOWN /\ ~(remaining > 0)
         st1 == IF leave THEN EXPERIMENT ELSE state
         t1 == IF leave THEN pickNewTarget(Cur, EXPERIMENT, <<>>) ELSE Cur
         logs == st1 \in LoggedStates
         t2 == IF logs THEN logMouseData_track(t1, pointer_x, pointer_y) ELSE t1
     IN /\ t2.over <= MaxOvershoot
        /\ state' = st1
        /\ SetCur(t2)
        /\ IF state = END /\ ~logSaved
           THEN saveLog
           ELSE /\ UNCHANGED <<fileWrites, logSaved>>
                /\ logDirty' = (logDirty \/ logs)
        /\ IF logs
           THEN /\ frame_dx' = 0 /\ frame_dy' = 0
                /\ clicked' = FALSE /\ hit' = FALSE
           ELSE UNCHANGED <<frame_dx, frame_dy, clicked, hit>>
  /\ pc' = "top"
  /\ UNCHANGED <<running, trialCount, experimentCount, reactionTimes, saveKeys,
                 countdownElapsed, x, y>>
  /\ UNCHANGED <<pointer_x, pointer_y, frame_buttons, racevars, eventClicked, eventHit>>

\* a shutdown that writes the file only when no save has happened yet
Shutdown_ifNotSaved ==
  /\ pc = "top" /\ ~running /\ ~crashed
  /\ IF logSaved THEN UNCHANGED <<fileWrites, logSaved, logDirty>> ELSE saveLog
  /\ pc' = "done"
  /\ UNCHANGED <<state, running, trialCount, experimentCount, reactionTimes,
                 clicked, hit, saveKeys, countdownElapsed, x, y>>
  /\ UNCHANGED <<targetvars, ptrvars, racevars, eventClicked, eventHit>>

\* line 358: the loop has ended, saveLog() runs once more
Shutdown ==
  /\ pc = "top" /\ ~running /\ ~crashed
  /\ saveLog
  /\ pc' = "done"
  /\ UNCHANGED <<state, running, trialCount, experimentCount, reactionTimes,
                 clicked, hit, saveKeys, countdownElapsed, x, y>>
  /\ UNCHANGED <<targetvars, ptrvars, racevars, eventClicked, eventHit>>

\* device reports considered in Spec
Keys == {"q", "s", "r", "c"}
MoveDX == {-100, 100}

Next ==
  \/ FrameTop
  \/ QuitEvent
  \/ \E key \in Keys : KeyDown(key)
  \/ MouseButtonDown
  \/ ClockAdvance
  \/ FrameEnd
  \/ Shutdown
  \/ \E dx \in MoveDX : pointing_callback(dx, 0, 0)

Spec == Init /\ [][Next]_vars

(***************************************************************************)
(* SpecTime: the session with pygame.time.get_ticks() advancing, and       *)
(* without the S key, which does not touch the per-target tracking.        *)
(***************************************************************************)
TimeKeys == {"q", "r", "c"}

NextTime ==
  \/ FrameTop
  \/ QuitEvent
  \/ \E key \in TimeKeys : KeyDown(key)
  \/ MouseButtonDown
  \/ ClockAdvance
  \/ Tick
  \/ FrameEnd
  \/ Shutdown
  \/ \E dx \in MoveDX : pointing_callback(dx, 0, 0)

SpecTime == Init /\ [][NextTime]_vars

(***************************************************************************)
(* SpecCountdown: the session from the two screens that lead into a        *)
(* countdown, the transition screen after the first practice round and     *)
(* the first break of the experiment, with the pointer at rest except     *)
(* during the countdown.  The main loop runs an iteration every 1/60 s     *)
(* (clock.tick(60), line 355) for as long as running is True, and          *)
(* time.time() advances: weak fairness of the two halves of an iteration   *)
(* and of the countdown clock.                                             *)
(***************************************************************************)
RECURSIVE PlaceN(_, _, _)
\* n targets placed one after the other while `state` is st
PlaceN(t, st, n) ==
  IF n = 0 THEN t ELSE PlaceN(pickNewTarget(t, st, <<>>), st, n - 1)

\* the main loop at the top of an iteration, after the iteration whose
\* click hit the target of record t with the pointer resting on it, which
\* led to the screen st; tc, ec and elapsed are the counters and the
\* countdown clock at that point
AfterHit(st, tc, ec, elapsed, t) ==
  /\ state = st /\ running = TRUE /\ pc = "top"
  /\ trialCount = tc /\ experimentCount = ec /\ reactionTimes = ec
  /\ clicked = TRUE /\ hit = TRUE
  /\ logSaved = FALSE /\ fileWrites = 0 /\ saveKeys = 0
  /\ countdownElapsed = elapsed
  /\ pointer_x = t.tX /\ pointer_y = t.tY /\ x = t.tX /\ y = t.tY
  /\ frame_dx = 0 /\ frame_dy = 0 /\ frame_buttons = 0
  /\ LET r == logMouseData_track(t, t.tX, t.tY)
     IN /\ currentTrialSequence = r.seq /\ currentTrialIndex = r.idx
        /\ targetX = r.tX /\ targetY = r.tY /\ targetSize = r.tSize
        /\ targetOnLeft = r.onLeft
        /\ formerTargetX = r.fX /\ formerTargetY = r.fY /\ formerTargetSize = r.fSize
        /\ hasEnteredEdge = r.entered /\ insideEdgeLastFrame = r.insideLast
        /\ overshootCount = r.over /\ timeSinceEdge = r.since
        /\ placements = r.placed /\ crashed = r.crashed
  /\ logDirty = TRUE /\ eventClicked = TRUE /\ eventHit = TRUE
  /\ InitRace

\* the targets of the first practice round have been hit (lines 286-294)
PracticeDone == PlaceN(AfterStartup, TRIAL, totalTrialTargets)

AtTransition == AfterHit(TRANSITION, totalTrialTargets, 0, 0, PracticeDone)

\* 'c', the countdown, and breakInterval experiment targets hit (296-308)
AtBreak ==
  AfterHit(BREAK_SCREEN, totalTrialTargets, breakInterval, countdownDuration,
           PlaceN(PracticeDone, EXPERIMENT, breakInterval))

InitCountdown == AtTransition \/ AtBreak

CountdownKeys == {"q", "r", "c"}

NextCountdown ==
  \/ FrameTop
  \/ QuitEvent
  \/ \E key \in CountdownKeys : KeyDown(key)
  \/ MouseButtonDown
  \/ ClockAdvance
  \/ FrameEnd
  \/ Shutdown
  \/ state = COUNTDOWN /\ \E dx \in MoveDX : pointing_callback(dx, 0, 0)

SpecCountdown ==
  /\ InitCountdown /\ [][NextCountdown]_vars
  /\ WF_vars(FrameTop) /\ WF_vars(FrameEnd) /\ WF_vars(ClockAdvance)

(***************************************************************************)
(* SpecPtr: the device thread runs pointing_callback statement by          *)
(* statement while the frame loop, in the practice phase, runs             *)
(* logMouseData statement by statement.  RawPointer.update and             *)
(* RawPointer.get_pos hold self.lock for their whole body, so each is one  *)
(* step; `frame_dx += dx` is a read followed by a write of the global.     *)
(* sent_*, logged_*, pos_applied and acc_applied record what has been      *)
(* delivered, what has been written to log rows, and how many reports      *)
(* have reached the position and the accumulator.                          *)
(***************************************************************************)
\* the session after the click that leaves the start screen (lines 282-285)
\* and the frame that ends it
InitPtr == InitWith(TRIAL, pickNewTarget(AfterStartup, TRIAL, <<>>))

mainvars == <<loopvars, targetvars, obsvars>>

\* libpointing invokes pointing_callback(timestamp, dx, dy, buttons)
CbDeliver(dx, dy, buttons) ==
  /\ cb_pc = "idle"
  /\ delivered < MaxDeltas
  /\ delivered' = delivered + 1
  /\ cb_dx' = dx /\ cb_dy' = dy /\ cb_buttons' = buttons
  /\ sent_dx' = sent_dx + dx /\ sent_dy' = sent_dy + dy
  /\ cb_pc' = "update"
  /\ UNCHANGED <<mainvars, ptrvars, cb_tmp, log_pc, log_x, log_y,
                 logged_dx, logged_dy, pos_applied, acc_applied>>

\* line 128: pointer.update(dx, dy)
CbUpdate ==
  /\ cb_pc = "update"
  /\ RawPointer_update(cb_dx, cb_dy)
  /\ pos_applied' = pos_applied + 1
  /\ cb_pc' = "load_dx"
  /\ UNCHANGED <<mainvars, frame_dx, frame_dy, frame_buttons,
                 cb_dx, cb_dy, cb_buttons, cb_tmp, log_pc, log_x, log_y,
                 delivered, sent_dx, sent_dy, logged_dx, logged_dy, acc_applied>>

\* line 129: frame_dx += dx, the read
CbLoadDx ==
  /\ cb_pc = "load_dx"
  /\ cb_tmp' = frame_dx
  /\ cb_pc' = "store_dx"
  /\ UNCHANGED <<mainvars, ptrvars, cb_dx, cb_dy, cb_buttons, log_pc, log_x, log_y,
                 delivered, sent_dx, sent_dy, logged_dx, logged_dy,
                 pos_applied, acc_applied>>

\* line 129: frame_dx += dx, the write
CbStoreDx ==
  /\ cb_pc = "store_dx"
  /\ frame_dx' = cb_tmp + cb_dx
  /\ cb_pc' = "load_dy"
  /\ UNCHANGED <<mainvars, pointer_x, pointer_y, frame_dy, frame_buttons,
                 cb_dx, cb_dy, cb_buttons, cb_tmp, log_pc, log_x, log_y,
                 delivered, sent_dx, sent_dy, logged_dx, logged_dy,
                 pos_applied, acc_applied>>

\* line 130: frame_dy += dy, the read
CbLoadDy ==
  /\ cb_pc = "load_dy"
  /\ cb_tmp' = frame_dy
  /\ cb_pc' = "store_dy"
  /\ UNCHANGED <<mainvars, ptrvars, cb_dx, cb_dy, cb_buttons, log_pc, log_x, log_y,
                 delivered, sent_dx, sent_dy, logged_dx, logged_dy,
                 pos_applied, acc_applied>>

\* line 130: frame_dy += dy, the write
CbStoreDy ==
  /\ cb_pc = "store_dy"
  /\ frame_dy' = cb_tmp + cb_dy
  /\ acc_applied' = acc_applied + 1
  /\ cb_pc' = "buttons"
  /\ UNCHANGED <<mainvars, pointer_x, pointer_y, frame_dx, frame_buttons,
                 cb_dx, cb_dy, cb_buttons, cb_tmp, log_pc, log_x, log_y,
                 delivered, sent_dx, sent_dy, logged_dx, logged_dy, pos_applied>>

\* line 131: frame_buttons = buttons
CbButtons ==
  /\ cb_pc = "buttons"
  /\ frame_buttons' = cb_buttons
  /\ cb_pc' = "idle"
  /\ UNCHANGED <<mainvars, pointer_x, pointer_y, frame_dx, frame_dy,
                 cb_dx, cb_dy, cb_buttons, cb_tmp, log_pc, log_x, log_y,
                 delivered, sent_dx, sent_dy, logged_dx, logged_dy,
                 pos_applied, acc_applied>>

\* line 177: x, y = pointer.get_pos()
LogGetPos ==
  /\ log_pc = "idle"
  /\ state \in LoggedStates
  /\ log_x' = pointer_x /\ log_y' = pointer_y
  /\ log_pc' = "append"
  /\ UNCHANGED <<mainvars, ptrvars, cb_pc, cb_dx, cb_dy, cb_buttons, cb_tmp,
                 delivered, sent_dx, sent_dy, logged_dx, logged_dy,
                 pos_applied, acc_applied>>

\* lines 178-206: the per-target tracking and the row, whose raw_dx and
\* raw_dy are the accumulator's values at this moment
LogAppend ==
  /\ log_pc = "append"
  /\ SetCur(logMouseData_track(Cur, log_x, log_y))
  /\ logged_dx' = logged_dx + frame_dx
  /\ logged_dy' = logged_dy + frame_dy
  /\ log_pc' = "reset_dx"
  /\ logDirty' = TRUE
  /\ UNCHANGED <<eventClicked, eventHit>>
  /\ UNCHANGED <<loopvars, ptrvars, cb_pc, cb_dx, cb_dy, cb_buttons, cb_tmp,
                 log_x, log_y, delivered, sent_dx, sent_dy, pos_applied, acc_applied>>

\* line 209: frame_dx = 0
LogResetDx ==
  /\ log_pc = "reset_dx"
  /\ frame_dx' = 0
  /\ log_pc' = "reset_dy"
  /\ UNCHANGED <<mainvars, pointer_x, pointer_y, frame_dy, frame_buttons,
                 cb_pc, cb_dx, cb_dy, cb_buttons, cb_tmp, log_x, log_y,
                 delivered, sent_dx, sent_dy, logged_dx, logged_dy,
                 pos_applied, acc_applied>>

\* line 210: frame_dy = 0
LogResetDy ==
  /\ log_pc = "reset_dy"
  /\ frame_dy' = 0
  /\ log_pc' = "flags"
  /\ UNCHANGED <<mainvars, pointer_x, pointer_y, frame_dx, frame_buttons,
                 cb_pc, cb_dx, cb_dy, cb_buttons, cb_tmp, log_x, log_y,
                 delivered, sent_dx, sent_dy, logged_dx, logged_dy,
                 pos_applied, acc_applied>>

\* lines 211-212: clicked = False, hit = False
LogFlags ==
  /\ log_pc = "flags"
  /\ clicked' = FALSE /\ hit' = FALSE
  /\ log_pc' = "idle"
  /\ UNCHANGED <<state, running, pc, trialCount, experimentCount, reactionTimes,
                 logSaved, fileWrites, saveKeys, countdownElapsed, x, y>>
  /\ UNCHANGED <<targetvars, ptrvars, cb_pc, cb_dx, cb_dy, cb_buttons, cb_tmp,
                 log_x, log_y, delivered, sent_dx, sent_dy, logged_dx, logged_dy,
                 pos_applied, acc_applied, obsvars>>

\* device reports considered in SpecPtr
PtrDeltas == {<<300, 200>>, <<-300, -200>>, <<100, 0>>}
PtrButtons == {0, 1}

NextPtr ==
  \/ \E d \in PtrDeltas, b \in PtrButtons : CbDeliver(d[1], d[2], b)
  \/ CbUpdate
  \/ CbLoadDx
  \/ CbStoreDx
  \/ CbLoadDy
  \/ CbStoreDy
  \/ CbButtons
  \/ LogGetPos
  \/ LogAppend
  \/ LogResetDx
  \/ LogResetDy
  \/ LogFlags

SpecPtr == InitPtr /\ [][NextPtr]_vars

(***************************************************************************)
(* Properties                                                              *)
(***************************************************************************)
\* the placements made while state was st, in order
PlacedIn(st) == SelectSeq(placements, LAMBDA p : p.st = st)

\* the click of this frame lies in the target: its squared distance to the
\* target centre is at most the squared radius
ClickInTarget ==
  4 * ((x - targetX) * (x - targetX) + (y - targetY) * (y - targetY))
     <= targetSize * targetSize

\* C1: for every sequence of device deltas the pointer stays inside
\* [0, WIDTH] x [0, HEIGHT], and a delta that would carry it past an edge
\* leaves it on that edge (clamped, not wrapped).
C1_PointerClamped ==
  /\ [](pointer_x >= 0 /\ pointer_x <= WIDTH /\ pointer_y >= 0 /\ pointer_y <= HEIGHT)
  /\ [][(cb_pc = "update" /\ cb_pc' = "load_dx") =>
          /\ pointer_x + cb_dx > WIDTH => pointer_x' = WIDTH
          /\ pointer_x + cb_dx < 0 => pointer_x' = 0
          /\ (pointer_x + cb_dx >= 0 /\ pointer_x + cb_dx <= WIDTH)
                => pointer_x' = pointer_x + cb_dx
          /\ pointer_y + cb_dy > HEIGHT => pointer_y' = HEIGHT
          /\ pointer_y + cb_dy < 0 => pointer_y' = 0
          /\ (pointer_y + cb_dy >= 0 /\ pointer_y + cb_dy <= HEIGHT)
                => pointer_y' = pointer_y + cb_dy]_vars

\* every delivered delta has reached the position, their sum leads past the
\* right and the bottom edge, and the pointer sits on both edges
C1_PinnedAtEdge ==
  /\ delivered > 0 /\ pos_applied = delivered
  /\ (WIDTH \div 2) + sent_dx > WIDTH /\ pointer_x = WIDTH
  /\ (HEIGHT \div 2) + sent_dy > HEIGHT /\ pointer_y = HEIGHT

\* C2: whenever neither the callback nor the logger is in mid-flight, the
\* raw_dx (raw_dy) of all rows written so far plus the frame accumulator
\* equal the sum of all dx (dy) delivered: nothing is dropped or counted
\* twice, whatever the interleaving.
C2_NoDeltaLost ==
  (cb_pc = "idle" /\ log_pc = "idle") =>
     /\ logged_dx + frame_dx = sent_dx
     /\ logged_dy + frame_dy = sent_dy

\* C3: a delta is added to the position and to the frame accumulator in one
\* critical section: no state another thread can observe has the delta in
\* the position but not yet in the accumulator (or the reverse).
C3_NoTornDelta == pos_applied = acc_applied

\* C4: once a save has succeeded (logSaved), no later save trigger writes
\* the file again, so a session writes the file at most once.
C4_SaveIdempotent ==
  /\ [][logSaved => fileWrites' = fileWrites]_vars
  /\ [](fileWrites <= 1)

\* C5: a click inside the target in TRIAL adds exactly one to trialCount;
\* the state becomes TRANSITION exactly when trialCount reaches
\* totalTrialTargets, and before that it stays TRIAL and a next target is
\* placed.
C5_TrialHit ==
  [][(MouseButtonDown /\ state = TRIAL /\ ClickInTarget) =>
        /\ trialCount' = trialCount + 1
        /\ (state' = TRANSITION) <=> (trialCount' = totalTrialTargets)
        /\ trialCount' < totalTrialTargets =>
              /\ state' = TRIAL
              /\ Len(placements') = Len(placements) + 1
              /\ placements'[Len(placements')].st = TRIAL]_vars

\* C6: a click outside the target in TRIAL or EXPERIMENT changes only the
\* clicked and hit flags: state, counters, reaction times, target, former
\* target and side stay as they are.
C6_MissChangesNothing ==
  [][(MouseButtonDown /\ state \in {TRIAL, EXPERIMENT} /\ ~ClickInTarget) =>
        /\ clicked' /\ ~hit'
        /\ UNCHANGED <<state, trialCount, experimentCount, reactionTimes,
                       targetX, targetY, targetSize,
                       formerTargetX, formerTargetY, formerTargetSize,
                       targetOnLeft>>]_vars

\* a frame of the experiment in which a click has missed the target
C6_MissHappened ==
  /\ state = EXPERIMENT /\ pc = "events"
  /\ clicked /\ ~hit /\ ~ClickInTarget
  /\ experimentCount > 0

\* C7: a hit in EXPERIMENT that raises experimentCount to n leads to END if
\* n = totalExperimentTargets (also when n is a multiple of breakInterval),
\* else to BREAK_SCREEN if n is a multiple of breakInterval, else the state
\* stays EXPERIMENT and a next target is placed; END is never entered with
\* experimentCount < totalExperimentTargets.
C7_ExperimentHit ==
  /\ [](state = END => experimentCount >= totalExperimentTargets)
  /\ [][(MouseButtonDown /\ state = EXPERIMENT /\ ClickInTarget) =>
          /\ experimentCount' = experimentCount + 1
          /\ experimentCount' = totalExperimentTargets => state' = END
          /\ (experimentCount' # totalExperimentTargets
                /\ experimentCount' % breakInterval = 0) => state' = BREAK_SCREEN
          /\ (experimentCount' # totalExperimentTargets
                /\ experimentCount' % breakInterval # 0) =>
                /\ state' = EXPERIMENT
                /\ Len(placements') = Len(placements) + 1
                /\ placements'[Len(placements')].st = EXPERIMENT]_vars

\* the last hit has just ended the experiment, after at least one break
C7_EndReached ==
  /\ state = END /\ hit /\ pc = "events"
  /\ experimentCount = totalExperimentTargets
  /\ experimentCount > breakInterval

\* C8: the k-th target placed in EXPERIMENT uses the k-th entry of the
\* shuffled trial_sequence (the first one uses trial_sequence[0]), and no
\* entry has been consumed by a placement outside EXPERIMENT.
C8_FrontToBack ==
  LET e == PlacedIn(EXPERIMENT)
  IN /\ \A k \in 1..Len(e) : e[k].pos = k
     /\ Len(e) > 0 =>
          \A i \in 1..Len(placements) :
             placements[i].st # EXPERIMENT => placements[i].pos = 0

\* C9: no entry of trial_sequence is used for two targets placed in
\* EXPERIMENT, and when END is reached exactly totalExperimentTargets
\* targets have been placed in EXPERIMENT, one for every entry.
C9_EachEntryOnce ==
  LET e == PlacedIn(EXPERIMENT)
  IN /\ Len(e) <= totalExperimentTargets
     /\ \A i, j \in 1..Len(e) : i # j => e[i].pos # e[j].pos
     /\ \A i \in 1..Len(e) : e[i].pos \in 1..totalExperimentTargets
     /\ state = END =>
          /\ Len(e) = totalExperimentTargets
          /\ {e[i].pos : i \in 1..Len(e)} = 1..totalExperimentTargets

\* a whole session has been played to END
C9_SessionComplete ==
  /\ state = END
  /\ Len(PlacedIn(EXPERIMENT)) = totalExperimentTargets

\* C10: the targets of a practice round come from a sample of conditions
\* drawn for the practice (not from the entries of trial_sequence), and the
\* conditions of one round are pairwise distinct.
C10_PracticeSampled ==
  LET p == PlacedIn(TRIAL)
      round(i) == (i - 1) \div totalTrialTargets
  IN /\ \A i \in 1..Len(p) : p[i].pos = 0
     /\ \A i, j \in 1..Len(p) :
          (i # j /\ round(i) = round(j)) =>
             <<p[i].A, p[i].W>> # <<p[j].A, p[j].W>>

\* this step places a target
PlacedNow == Len(placements') = Len(placements) + 1

\* C11: every placement uses targetOnLeft and leaves its negation for the
\* next one, and nothing else changes it: a target placed while
\* targetOnLeft holds lies left of the screen centre, the next one right of
\* it, and so on, in all phases and across phase changes.
C11_SidesAlternate ==
  /\ [](targetOnLeft <=> targetX > WIDTH \div 2)
  /\ [][/\ PlacedNow =>
             /\ targetOnLeft' = ~targetOnLeft
             /\ targetOnLeft => targetX' < WIDTH \div 2
             /\ ~targetOnLeft => targetX' > WIDTH \div 2
        /\ ~PlacedNow => targetOnLeft' = targetOnLeft]_vars

\* targets have been placed in the practice and in the experiment
C11_PlacedAcrossPhases ==
  /\ Len(PlacedIn(TRIAL)) >= 2
  /\ Len(PlacedIn(EXPERIMENT)) >= 2
  /\ state = EXPERIMENT

\* the pointer of the frame being logged lies inside the edge of the target
\* the frame is logged for
PointerInsideNext ==
  4 * ((pointer_x - targetX') * (pointer_x - targetX')
         + (pointer_y - targetY') * (pointer_y - targetY'))
     <= targetSize' * targetSize'

\* this step is an iteration's end that writes a log row
LoggedFrame == FrameEnd /\ state' \in LoggedStates

\* C12: on a logged frame of a displayed target overshootCount grows by one
\* if the pointer was inside the edge on the previous logged frame and is
\* outside now, and keeps its value otherwise; the inside flag records this
\* frame; a placement resets the count to 0 and the flag to false (a row
\* logged in the placing frame starts from the reset values).
C12_OvershootCount ==
  [][/\ (LoggedFrame /\ ~PlacedNow) =>
          /\ insideEdgeLastFrame' = PointerInsideNext
          /\ (insideEdgeLastFrame /\ ~PointerInsideNext)
                => overshootCount' = overshootCount + 1
          /\ ~(insideEdgeLastFrame /\ ~PointerInsideNext)
                => overshootCount' = overshootCount
     /\ (PlacedNow /\ ~LoggedFrame) =>
          overshootCount' = 0 /\ ~insideEdgeLastFrame'
     /\ (PlacedNow /\ LoggedFrame) =>
          overshootCount' = 0 /\ insideEdgeLastFrame' = PointerInsideNext
     /\ (~PlacedNow /\ ~LoggedFrame) =>
          UNCHANGED <<overshootCount, insideEdgeLastFrame>>]_vars

\* the pointer has left the target once and is inside it again
C12_OvershotAndBack ==
  /\ overshootCount = 1 /\ insideEdgeLastFrame
  /\ state \in {TRIAL, EXPERIMENT}

\* C15: after a placement the former target is the target that was current
\* before it: formerTargetX, formerTargetY and formerTargetSize are the old
\* targetX, targetY and targetSize.
C15_FormerIsPrevious ==
  [][PlacedNow =>
        /\ formerTargetX' = targetX
        /\ formerTargetY' = targetY
        /\ formerTargetSize' = targetSize]_vars

\* counters and target as the key handlers may change them
KeyFrame == <<state, trialCount, experimentCount, reactionTimes,
              targetX, targetY, targetSize, targetOnLeft, placements>>

\* C18: 'r' acts only in TRANSITION (to TRIAL, trialCount 0, a target
\* placed); 'c' acts only in TRANSITION (to COUNTDOWN, experimentCount 0,
\* reactionTimes empty) and in BREAK_SCREEN (to COUNTDOWN, experimentCount
\* and reactionTimes kept); elsewhere they change neither state, counters
\* nor target.
C18_RepeatAndContinueKeys ==
  /\ [][KeyDown("r") =>
          IF state = TRANSITION
          THEN state' = TRIAL /\ trialCount' = 0 /\ PlacedNow
          ELSE UNCHANGED KeyFrame]_vars
  /\ [][KeyDown("c") =>
          IF state = TRANSITION
          THEN /\ state' = COUNTDOWN /\ experimentCount' = 0 /\ reactionTimes' = 0
               /\ UNCHANGED <<trialCount, targetX, targetY, targetSize,
                              targetOnLeft, placements>>
          ELSE IF state = BREAK_SCREEN
          THEN /\ state' = COUNTDOWN
               /\ UNCHANGED <<trialCount, experimentCount, reactionTimes,
                              targetX, targetY, targetSize, targetOnLeft,
                              placements>>
          ELSE UNCHANGED KeyFrame]_vars

\* the transition screen and later a break have been left with 'c': the
\* countdown after the break runs with the counter and the times kept
C18_ContinuedAfterBreak ==
  /\ state = COUNTDOWN /\ experimentCount > 0 /\ reactionTimes > 0

\* C20: no call of pickNewTarget fails: the practice index stays below the
\* length of currentTrialSequence and the experiment never pops from an
\* empty list, so the program never ends with an IndexError.
C20_PlacementNeverFails == ~crashed

\* C14: the session starts in the start screen, and the end screen is
\* terminal: from END no step changes the phase, a counter, the reaction
\* times, the target (placement, former target, tracking, trial list) or
\* adds a row to the log buffer.
C14_StartAndTerminalEnd ==
  /\ state = START_SCREEN
  /\ [][state = END => /\ state' = END
                       /\ UNCHANGED <<trialCount, experimentCount, reactionTimes>>
                       /\ UNCHANGED targetvars
                       /\ (logDirty' => logDirty)]_vars

\* the end screen has been saved and a later iteration has handled a click
C14_ClickedInEnd == state = END /\ logSaved /\ eventClicked /\ pc = "events"

\* C16: the clicked and hit fields of a row (line 204: the values of clicked
\* and hit when logMouseData runs) are 1 only if a click was handled in the
\* same iteration, respectively a click that lay inside the target.
C16_FlagsOfThisFrame ==
  [][LoggedFrame => /\ (clicked => eventClicked)
                    /\ (hit => eventHit)]_vars

\* C19: when the program has been quit, the file holds every row of the
\* log buffer, whether or not a save happened before.
C19_FileCompleteAtQuit == pc = "done" => (logSaved /\ ~logDirty)

\* quit during the experiment after an earlier save with the S key
C19_QuitAfterEarlierSave ==
  pc = "done" /\ saveKeys >= 1 /\ state = EXPERIMENT /\ fileWrites > saveKeys

\* C13: the timeSinceEdge of a row is -1 as long as no logged frame of the
\* displayed target had edge distance 0; the first such frame stores the
\* entry time (the row shows 0), later rows of the target show the time
\* elapsed since then, which a re-entry does not restart; a placement
\* returns it to -1.
C13_TimeSinceEdge ==
  /\ [](hasEnteredEdge <=> timeSinceEdge >= 0)
  /\ [](~hasEnteredEdge <=> timeSinceEdge = -1)
  /\ [][/\ (PlacedNow /\ ~LoggedFrame) => timeSinceEdge' = -1
        /\ (LoggedFrame /\ (PlacedNow \/ ~hasEnteredEdge)) =>
             timeSinceEdge' = IF PointerInsideNext THEN 0 ELSE -1
        /\ (LoggedFrame /\ ~PlacedNow /\ hasEnteredEdge) =>
             timeSinceEdge' = timeSinceEdge
        /\ (~PlacedNow /\ ~LoggedFrame) => timeSinceEdge' >= timeSinceEdge]_vars

\* the pointer has entered the target, left it and come back, and the row
\* of the re-entry shows the time since the first entry
C13_ReenteredLater ==
  /\ timeSinceEdge > 0 /\ overshootCount >= 1 /\ insideEdgeLastFrame
  /\ pc = "top" /\ state \in LoggedStates

\* C17: the countdown is left only for the experiment, only by the end of
\* an iteration that finds at least countdownDuration seconds elapsed and
\* places a target; no other step in it changes the phase or a counter;
\* and with the frame loop running and the clock advancing every countdown
\* is followed by the experiment, unless the program is quit.
C17_CountdownLeaves ==
  /\ [][state = COUNTDOWN =>
          /\ state' \in {COUNTDOWN, EXPERIMENT}
          /\ UNCHANGED <<trialCount, experimentCount, reactionTimes>>
          /\ state' = EXPERIMENT => /\ countdownElapsed >= countdownDuration
                                    /\ PlacedNow
          /\ state' = COUNTDOWN => ~PlacedNow]_vars
  /\ (state = COUNTDOWN ~> (state = EXPERIMENT \/ ~running))

\* the countdown after the transition screen has run its full duration
\* and its last iteration has placed the first experiment target
C17_CountdownDone ==
  /\ state = EXPERIMENT /\ pc = "top" /\ experimentCount = 0
  /\ countdownElapsed = countdownDuration /\ Len(PlacedIn(EXPERIMENT)) = 1

====
